---- MODULE Spec2Model ----
(***************************************************************************)
(* The brute force VRP solver of src/api.py (brute_force_solve and the     *)
(* helpers it calls) as a state machine: one behaviour is one call of      *)
(* brute_force_solve on one input, one step of the main loop per           *)
(* assignment drawn from generate_all_assignments.                         *)
(*                                                                         *)
(* Python lists are sequences (index i of the code is index i+1 here),     *)
(* dicts are functions, an Optional[int] is <<>> (None / infinity) or      *)
(* <<n>>.                                                                  *)
(***************************************************************************)
EXTENDS Integers, Sequences, FiniteSets, TLC

(***************************************************************************)
(* Bounds of the checked inputs.                                           *)
(***************************************************************************)
MaxJobs == 2

VehicleIds == <<"v1", "v2">>
JobIds == <<"j1", "j2", "j3", "j4">>
Locations == {0, 1}
Durations == {0, 1}
Services == {0, 1}
\* a job's service adds the same amount to every plan of the job list
JobServices == {1}
Deliveries == {1, 2}

(***************************************************************************)
(* Optional integers: capacity None (or the float('inf') default) and the  *)
(* float('inf') of min_total / min_route_duration.                         *)
(***************************************************************************)
Inf == <<>>
Fin(n) == <<n>>
IsInf(x) == x = <<>>
Capacities == {Inf, Fin(1), Fin(2)}

(***************************************************************************)
(* Route and OutputData of input_classes.py.                               *)
(***************************************************************************)
Route(job_ids, duration) == [jobs |-> job_ids, delivery_duration |-> duration]

OutputData(total, routes_) == [total_delivery_duration |-> total, routes |-> routes_]

\* {v.id: Route(jobs=[], delivery_duration=0) for v in vehicles}
EmptyRoutes(vs) == [id \in {vs[i].id : i \in 1..Len(vs)} |-> Route(<<>>, 0)]

\* routes[key] = value on a dict
DictSet(d, key, value) ==
    [k \in (DOMAIN d) \cup {key} |-> IF k = key THEN value ELSE d[k]]

EmptyDict == [k \in {} |-> Route(<<>>, 0)]

(***************************************************************************)
(* compute_route_duration: the loop over range(len(job_locs) - 1).         *)
(***************************************************************************)
\* the loop adding the service of the job it leaves, not of the job it reaches
RECURSIVE RouteDurationLoop_ServiceOfDeparture(_, _, _, _, _)
RouteDurationLoop_ServiceOfDeparture(i, duration, job_locs, matrix_, services_) ==
    IF i >= Len(job_locs) - 1 THEN duration
    ELSE LET travel == matrix_[job_locs[i + 1] + 1][job_locs[i + 2] + 1]
             service == IF services_ # <<>> /\ i < Len(services_)
                        THEN services_[i + 1] ELSE 0
         IN RouteDurationLoop_ServiceOfDeparture(i + 1, duration + travel + service,
                                                 job_locs, matrix_, services_)

RECURSIVE RouteDurationLoop(_, _, _, _, _)
RouteDurationLoop(i, duration, job_locs, matrix_, services_) ==
    IF i >= Len(job_locs) - 1 THEN duration
    ELSE LET travel == matrix_[job_locs[i + 1] + 1][job_locs[i + 2] + 1]
             service == IF services_ # <<>> /\ i + 1 < Len(services_)
                        THEN services_[i + 2] ELSE 0
         IN RouteDurationLoop(i + 1, duration + travel + service,
                              job_locs, matrix_, services_)

compute_route_duration(start, job_locs, matrix_, services_) ==
    IF job_locs = <<>> THEN 0
    ELSE LET first == matrix_[start + 1][job_locs[1] + 1]
                        + (IF services_ # <<>> THEN services_[1] ELSE 0)
         IN RouteDurationLoop(0, first, job_locs, matrix_, services_)

(***************************************************************************)
(* is_capacity_feasible.                                                   *)
(***************************************************************************)
RECURSIVE SumDelivery(_)
SumDelivery(assigned_jobs) ==
    IF assigned_jobs = <<>> THEN 0
    ELSE Head(assigned_jobs).delivery + SumDelivery(Tail(assigned_jobs))

is_capacity_feasible(assigned_jobs, capacity) ==
    IF IsInf(capacity) THEN TRUE
    ELSE SumDelivery(assigned_jobs) <= capacity[1]

(***************************************************************************)
(* generate_all_assignments: the sequence of the assignments the generator *)
(* yields, in the order it yields them.  An assignment is a sequence of    *)
(* num_vehicles lists of job ids.                                          *)
(***************************************************************************)
RECURSIVE Concat(_)
Concat(seqs) == IF seqs = <<>> THEN <<>> ELSE Head(seqs) \o Concat(Tail(seqs))

\* the base case yielding [[]] * num_vehicles: one list shared by every vehicle
RECURSIVE generate_all_assignments_SharedList(_, _)
generate_all_assignments_SharedList(job_list, num_vehicles) ==
    IF job_list = <<>> THEN << [v \in 1..num_vehicles |-> <<>>] >>
    ELSE LET inner == generate_all_assignments_SharedList(Tail(job_list), num_vehicles)
         IN Concat([vehicle_idx \in 1..num_vehicles |->
                      [k \in 1..Len(inner) |->
                         [v \in 1..num_vehicles |-> Append(inner[k][v], job_list[1])]]])

RECURSIVE generate_all_assignments(_, _)
generate_all_assignments(job_list, num_vehicles) ==
    IF job_list = <<>> THEN << [v \in 1..num_vehicles |-> <<>>] >>
    ELSE LET first_job == job_list[1]
             remaining_jobs == Tail(job_list)
             inner == generate_all_assignments(remaining_jobs, num_vehicles)
         IN Concat([vehicle_idx \in 1..num_vehicles |->
                      [k \in 1..Len(inner) |->
                         [inner[k] EXCEPT ![vehicle_idx] = Append(@, first_job)]]])

(***************************************************************************)
(* itertools.permutations(seq): all orders, in lexicographic order of the  *)
(* positions in seq.                                                       *)
(***************************************************************************)
Without(seq, i) == [k \in 1..(Len(seq) - 1) |-> IF k < i THEN seq[k] ELSE seq[k + 1]]

RECURSIVE permutations(_)
permutations(seq) ==
    IF seq = <<>> THEN << <<>> >>
    ELSE Concat([i \in 1..Len(seq) |->
                   LET rest == permutations(Without(seq, i))
                   IN [k \in 1..Len(rest) |-> <<seq[i]>> \o rest[k]]])

(***************************************************************************)
(* job_dict = {j.id: j for j in jobs}: the last job of an id wins.         *)
(***************************************************************************)
job_dict(js) ==
    [id \in {js[i].id : i \in 1..Len(js)} |->
        js[CHOOSE i \in 1..Len(js) :
              /\ js[i].id = id
              /\ \A k \in 1..Len(js) : js[k].id = id => k <= i]]

(***************************************************************************)
(* The permutation loop of brute_force_solve (lines 111-128): the state is *)
(* min_route_duration and best_sequence.                                   *)
(***************************************************************************)
RouteBetter(duration, min_route_duration) ==
    IsInf(min_route_duration) \/ duration < min_route_duration[1]

RECURSIVE PermLoop(_, _, _, _, _, _)
PermLoop(perms, k, acc, vehicle, jd, matrix_) ==
    IF k > Len(perms) THEN acc
    ELSE LET perm == perms[k]
             perm_locs == [x \in 1..Len(perm) |-> jd[perm[x]].location_index]
             perm_services == [x \in 1..Len(perm) |-> jd[perm[x]].service]
             duration == compute_route_duration(vehicle.start_index, perm_locs,
                                                matrix_, perm_services)
             next == IF RouteBetter(duration, acc.min_route_duration)
                     THEN [min_route_duration |-> Fin(duration), best_sequence |-> perm]
                     ELSE acc
         IN PermLoop(perms, k + 1, next, vehicle, jd, matrix_)

BestRoute(vehicle, assigned_job_ids, jd, matrix_) ==
    PermLoop(permutations(assigned_job_ids), 1,
             [min_route_duration |-> Inf, best_sequence |-> <<>>],
             vehicle, jd, matrix_)

(***************************************************************************)
(* The vehicle loop of brute_force_solve (lines 95-131) for one            *)
(* assignment: the state is total_duration, routes and feasible; the       *)
(* break leaves total_duration and routes as accumulated so far.           *)
(***************************************************************************)
RECURSIVE VehicleLoop(_, _, _, _, _, _)
VehicleLoop(vehicle_idx, acc, assignment, vs, jd, matrix_) ==
    IF vehicle_idx > Len(vs) THEN acc
    ELSE LET vehicle == vs[vehicle_idx]
             assigned_job_ids == assignment[vehicle_idx]
             assigned_jobs == [x \in 1..Len(assigned_job_ids) |-> jd[assigned_job_ids[x]]]
         IN IF ~is_capacity_feasible(assigned_jobs, vehicle.capacity)
            THEN [acc EXCEPT !.feasible = FALSE]
            ELSE IF assigned_job_ids = <<>>
            THEN VehicleLoop(vehicle_idx + 1,
                             [acc EXCEPT !.routes = DictSet(@, vehicle.id, Route(<<>>, 0))],
                             assignment, vs, jd, matrix_)
            ELSE LET best == BestRoute(vehicle, assigned_job_ids, jd, matrix_)
                 IN VehicleLoop(vehicle_idx + 1,
                                [acc EXCEPT
                                   !.total_duration = @ + best.min_route_duration[1],
                                   !.routes = DictSet(@, vehicle.id,
                                                Route(best.best_sequence,
                                                      best.min_route_duration[1]))],
                                assignment, vs, jd, matrix_)

EvaluateAssignment(assignment, vs, js, matrix_) ==
    VehicleLoop(1, [total_duration |-> 0, routes |-> EmptyDict, feasible |-> TRUE],
                assignment, vs, job_dict(js), matrix_)

\* line 133 comparing with the initial min_total only: the first feasible
\* assignment is stored and never replaced
Improves_FirstFeasible(feasible_, total_duration_, min_total_) ==
    feasible_ /\ IsInf(min_total_)

\* line 133 without the comparison: every feasible assignment is stored
Improves_AnyFeasible(feasible_, total_duration_, min_total_) == feasible_

\* line 133 without the feasible flag
Improves_IgnoresFeasible(feasible_, total_duration_, min_total_) ==
    IsInf(min_total_) \/ total_duration_ < min_total_[1]

\* line 133 with <= for <
Improves_OrEqual(feasible_, total_duration_, min_total_) ==
    feasible_ /\ (IsInf(min_total_) \/ total_duration_ <= min_total_[1])

\* line 133: if feasible and total_duration < min_total
Improves(feasible_, total_duration_, min_total_) ==
    feasible_ /\ (IsInf(min_total_) \/ total_duration_ < min_total_[1])

(***************************************************************************)
(* brute_force_solve as a function of its arguments: the main loop folded  *)
(* over the generator's output, then the two returns of lines 139-145.     *)
(***************************************************************************)
LoopStep(st, assignment, vs, js, matrix_) ==
    LET r == EvaluateAssignment(assignment, vs, js, matrix_)
    IN IF Improves(r.feasible, r.total_duration, st.min_total)
       THEN [min_total |-> Fin(r.total_duration), best_routes |-> r.routes]
       ELSE st

RECURSIVE SolveLoop(_, _, _, _, _)
SolveLoop(pending_, st, vs, js, matrix_) ==
    IF pending_ = <<>> THEN st
    ELSE SolveLoop(Tail(pending_), LoopStep(st, Head(pending_), vs, js, matrix_),
                   vs, js, matrix_)

brute_force_solve(vs, js, matrix_) ==
    IF js = <<>> THEN OutputData(0, EmptyRoutes(vs))
    ELSE LET st == SolveLoop(generate_all_assignments([i \in 1..Len(js) |-> js[i].id],
                                                      Len(vs)),
                             [min_total |-> Inf, best_routes |-> EmptyRoutes(vs)],
                             vs, js, matrix_)
         IN IF IsInf(st.min_total) THEN OutputData(0, EmptyRoutes(vs))
            ELSE OutputData(st.min_total[1], st.best_routes)

(***************************************************************************)
(* solve_routes, the POST /solve handler.  The body of its try block ends  *)
(* by returning a result or by raising; the except clauses turn what was   *)
(* raised into the HTTP status.  An attribute the object does not have     *)
(* raises AttributeError.                                                  *)
(***************************************************************************)
HasAttr(obj, name) == name \in DOMAIN obj

Returns(value, by) == [kind |-> "return", exc |-> "", status |-> 200, body |-> value,
                       by |-> by]
Raises(exc, status_) == [kind |-> "raise", exc |-> exc, status |-> status_,
                         body |-> OutputData(0, EmptyDict), by |-> "error"]

MaxOf(S, default) == IF S = {} THEN default ELSE CHOOSE x \in S : \A y \in S : y <= x

\* lines 147-288: the result of the OR-tools search is the library's; the model
\* keeps only which return of or_tools_solve produced the value
or_tools_solve(vs, js, matrix_, available, found) ==
    IF ~available THEN Raises("HTTPException", 400)
    ELSE IF js = <<>> THEN Returns(OutputData(0, EmptyRoutes(vs)), "or_tools")
    ELSE IF found THEN Returns(OutputData(0, EmptyDict), "or_tools_library")
    ELSE Returns(OutputData(0, EmptyRoutes(vs)), "or_tools")

\* lines 367-397
TryBody(input_data, solver_, available, found) ==
    IF input_data.vehicles = <<>> THEN Raises("ValueError", 0)
    ELSE IF input_data.matrix = <<>> THEN Raises("ValueError", 0)
    ELSE IF \E i \in 1..Len(input_data.vehicles) :
               ~HasAttr(input_data.vehicles[i], "start_index")
         THEN Raises("AttributeError", 0)
    ELSE IF \E i \in 1..Len(input_data.jobs) :
               ~HasAttr(input_data.jobs[i], "location_index")
         THEN Raises("AttributeError", 0)
    ELSE LET max_vehicle_index ==
                 MaxOf({input_data.vehicles[i].start_index :
                          i \in 1..Len(input_data.vehicles)}, -1)
             max_job_index ==
                 MaxOf({input_data.jobs[i].location_index :
                          i \in 1..Len(input_data.jobs)}, -1)
             max_index == MaxOf({max_vehicle_index, max_job_index}, -1)
         IN IF max_index >= Len(input_data.matrix) THEN Raises("ValueError", 0)
            ELSE IF \E i \in 1..Len(input_data.matrix) :
                       Len(input_data.matrix[i]) # Len(input_data.matrix)
                 THEN Raises("ValueError", 0)
            ELSE IF solver_ = "brute_force"
                 THEN Returns(brute_force_solve(input_data.vehicles, input_data.jobs,
                                                input_data.matrix), "brute_force")
            ELSE IF solver_ = "or_tools"
                 THEN IF ~available THEN Raises("HTTPException", 400)
                      ELSE or_tools_solve(input_data.vehicles, input_data.jobs,
                                          input_data.matrix, available, found)
            ELSE Raises("ValueError", 0)

\* lines 399-402: except ValueError -> 400, except Exception -> 500
ExceptClauses(outcome) ==
    IF outcome.kind = "return" THEN outcome
    ELSE IF outcome.exc = "ValueError" THEN Raises("HTTPException", 400)
    ELSE Raises("HTTPException", 500)

solve_routes(input_data, solver_, available, found) ==
    ExceptClauses(TryBody(input_data, solver_, available, found))

(***************************************************************************)
(* The inputs of the checked calls.                                        *)
(***************************************************************************)
Vehicle(id, start_index, capacity) ==
    [id |-> id, start_index |-> start_index, capacity |-> capacity]

Job(id, location_index, delivery, service) ==
    [id |-> id, location_index |-> location_index, delivery |-> delivery,
     service |-> service]

VehicleLists ==
    { [i \in 1..Len(f) |-> Vehicle(VehicleIds[i], f[i][1], f[i][2])] :
        f \in UNION { [1..n -> Locations \X Capacities] : n \in 1..Len(VehicleIds) } }

JobLists ==
    { [i \in 1..Len(f) |-> Job(JobIds[i], f[i][1], f[i][2], f[i][3])] :
        f \in UNION { [1..n -> Locations \X Deliveries \X JobServices] : n \in 0..MaxJobs } }

Matrices == { << <<a, b>>, <<c, d>> >> : a \in Durations, b \in Durations,
                                         c \in Durations, d \in Durations }

\* the concrete scenario of the specification's testable properties
SpecScenario ==
    [vehicles |-> << Vehicle("v1", 0, Fin(100)), Vehicle("v2", 0, Fin(100)) >>,
     jobs |-> << Job("j1", 1, 30, 300), Job("j2", 2, 40, 600) >>,
     matrix |-> << <<0, 600, 900>>, <<600, 0, 300>>, <<900, 300, 0>> >>]

\* sample_data of testcase.py
SampleData ==
    [vehicles |-> << Vehicle("vehicle_1", 0, Fin(100)), Vehicle("vehicle_2", 0, Fin(150)) >>,
     jobs |-> << Job("job_1", 1, 30, 300), Job("job_2", 2, 40, 600),
                 Job("job_3", 3, 25, 450) >>,
     matrix |-> << <<0, 600, 900, 1200>>, <<600, 0, 300, 800>>,
                   <<900, 300, 0, 400>>, <<1200, 800, 400, 0>> >>]

Inputs ==
    { [vehicles |-> vs, jobs |-> js, matrix |-> m] :
        vs \in VehicleLists, js \in JobLists, m \in Matrices }
    \cup {SpecScenario, SampleData}

(***************************************************************************)
(* Requests of POST /solve: the body is parsed into the models declared in *)
(* input_classes.py, whose fields are id, start, capacity (Vehicle) and    *)
(* id, loc, delivery, service (Job).                                       *)
(***************************************************************************)
SchemaVehicle(id, start, capacity) == [id |-> id, start |-> start, capacity |-> capacity]

SchemaJob(id, loc, delivery, service) ==
    [id |-> id, loc |-> loc, delivery |-> delivery, service |-> service]

RequestVehicleLists ==
    { [i \in 1..Len(f) |-> SchemaVehicle(VehicleIds[i], f[i][1], f[i][2])] :
        f \in UNION { [1..n -> Locations \X {Inf, Fin(1)}] : n \in 0..Len(VehicleIds) } }

RequestJobLists ==
    { [i \in 1..Len(f) |-> SchemaJob(JobIds[i], f[i][1], f[i][2], f[i][3])] :
        f \in UNION { [1..n -> Locations \X Deliveries \X {0}] : n \in 0..1 } }

RequestMatrices ==
    { <<>>, << <<0>> >>, << <<0, 1>>, <<1>> >>, << <<0, 1>>, <<1, 0>> >>,
      << <<0, 1, 1>>, <<1, 0, 1>>, <<1, 1, 0>> >> }

SolverTypes == {"brute_force", "or_tools"}

\* the request of test_solver, with the field names the schema declares
SampleRequest ==
    [vehicles |-> << SchemaVehicle("vehicle_1", 0, Fin(100)),
                     SchemaVehicle("vehicle_2", 0, Fin(150)) >>,
     jobs |-> << SchemaJob("job_1", 1, 30, 300), SchemaJob("job_2", 2, 40, 600),
                 SchemaJob("job_3", 3, 25, 450) >>,
     matrix |-> SampleData.matrix]

Requests ==
    { [vehicles |-> vs, jobs |-> js, matrix |-> m] :
        vs \in RequestVehicleLists, js \in RequestJobLists, m \in RequestMatrices }
    \cup {SampleRequest}

(***************************************************************************)
(* Arguments of the checked calls of compute_route_duration: services is   *)
(* no longer than job_locs (<<>> is None or an empty list).                *)
(***************************************************************************)
SeqsUpTo(S, n) == UNION { [1..k -> S] : k \in 0..n }

DurationCalls ==
    { [start |-> s, job_locs |-> locs, services |-> servs] :
        s \in Locations, locs \in SeqsUpTo(Locations, MaxJobs + 1),
        servs \in SeqsUpTo(Services, MaxJobs + 1) }

(***************************************************************************)
(* The state: one call of brute_force_solve (Spec), one request to         *)
(* POST /solve (SpecSolveRoutes), one call of solve_routes                 *)
(* (SpecSolveRoutesCall), one call of compute_route_duration               *)
(* (SpecRouteDuration) or two calls of brute_force_solve on the same       *)
(* lists in two orders (SpecReorder).                                      *)
(***************************************************************************)
VARIABLES vehicles, jobs, matrix,       \* the arguments / the request's input_data
          pc,                           \* where the call stands
          pending,                      \* what the generator has yet to yield
          assignment_count,             \* assignments drawn from the generator
          total_duration, routes, feasible,    \* locals of the last iteration
          min_total, best_routes,       \* best so far
          result,                       \* the returned OutputData
          solver, ORTOOLS_AVAILABLE,    \* the request's solver, the import's outcome
          status,                       \* the HTTP status of the response
          call, duration,               \* compute_route_duration: arguments, result
          reordered                     \* a second call with the lists reordered

solver_vars == <<pending, assignment_count, total_duration, routes, feasible,
                 min_total, best_routes>>
http_vars == <<solver, ORTOOLS_AVAILABLE, status>>
duration_vars == <<call, duration>>
reorder_vars == <<reordered>>

vars == <<vehicles, jobs, matrix, pc, result, solver_vars, http_vars, duration_vars,
          reorder_vars>>

job_ids == [i \in 1..Len(jobs) |-> jobs[i].id]
n_vehicles == Len(vehicles)

NoResult == OutputData(0, EmptyDict)
NoCall == [start |-> 0, job_locs |-> <<>>, services |-> <<>>]

SolverIdle ==
    /\ pending = <<>>
    /\ assignment_count = 0
    /\ total_duration = 0
    /\ routes = EmptyDict
    /\ feasible = TRUE
    /\ min_total = Inf
    /\ best_routes = EmptyDict
    /\ result = NoResult

HttpIdle == solver = "brute_force" /\ ORTOOLS_AVAILABLE = FALSE /\ status = 0

DurationIdle == call = NoCall /\ duration = 0

NoReorder == [vehicles |-> <<>>, jobs |-> <<>>, result |-> NoResult]
ReorderIdle == reordered = NoReorder

Init ==
    /\ \E inp \in Inputs :
         /\ vehicles = inp.vehicles
         /\ jobs = inp.jobs
         /\ matrix = inp.matrix
    /\ pc = "call"
    /\ SolverIdle
    /\ HttpIdle
    /\ DurationIdle
    /\ ReorderIdle

\* lines 64-66: if not jobs: return
ZeroJobs ==
    /\ pc = "call"
    /\ jobs = <<>>
    /\ result' = OutputData(0, EmptyRoutes(vehicles))
    /\ pc' = "returned"
    /\ UNCHANGED <<vehicles, jobs, matrix, solver_vars, http_vars, duration_vars,
                   reorder_vars>>

\* lines 68-90
Setup ==
    /\ pc = "call"
    /\ jobs # <<>>
    /\ min_total' = Inf
    /\ best_routes' = EmptyRoutes(vehicles)
    /\ assignment_count' = 0
    /\ pending' = generate_all_assignments(job_ids, n_vehicles)
    /\ pc' = "loop"
    /\ UNCHANGED <<vehicles, jobs, matrix, total_duration, routes, feasible, result,
                   http_vars, duration_vars,
                   reorder_vars>>

\* lines 92-135: one iteration of the loop over the generator
Iterate ==
    /\ pc = "loop"
    /\ pending # <<>>
    /\ pending' = Tail(pending)
    /\ \E r \in {EvaluateAssignment(Head(pending), vehicles, jobs, matrix)} :
          /\ assignment_count' = assignment_count + 1
          /\ total_duration' = r.total_duration
          /\ routes' = r.routes
          /\ feasible' = r.feasible
          /\ IF Improves(r.feasible, r.total_duration, min_total)
             THEN /\ min_total' = Fin(r.total_duration)
                  /\ best_routes' = r.routes
             ELSE UNCHANGED <<min_total, best_routes>>
    /\ UNCHANGED <<vehicles, jobs, matrix, pc, result, http_vars, duration_vars,
                   reorder_vars>>

\* lines 139-143: no feasible assignment was found
ReturnInfeasible ==
    /\ pc = "loop"
    /\ pending = <<>>
    /\ IsInf(min_total)
    /\ result' = OutputData(0, EmptyRoutes(vehicles))
    /\ pc' = "returned"
    /\ UNCHANGED <<vehicles, jobs, matrix, solver_vars, http_vars, duration_vars,
                   reorder_vars>>

\* line 145 returning the last assignment's total_duration for min_total
ReturnBest_LastTotal ==
    /\ pc = "loop"
    /\ pending = <<>>
    /\ ~IsInf(min_total)
    /\ result' = OutputData(total_duration, best_routes)
    /\ pc' = "returned"
    /\ UNCHANGED <<vehicles, jobs, matrix, solver_vars, http_vars, duration_vars,
                   reorder_vars>>

\* line 145
ReturnBest ==
    /\ pc = "loop"
    /\ pending = <<>>
    /\ ~IsInf(min_total)
    /\ result' = OutputData(min_total[1], best_routes)
    /\ pc' = "returned"
    /\ UNCHANGED <<vehicles, jobs, matrix, solver_vars, http_vars, duration_vars,
                   reorder_vars>>

Next == ZeroJobs \/ Setup \/ Iterate \/ ReturnInfeasible \/ ReturnBest

Spec == Init /\ [][Next]_vars

(***************************************************************************)
(* One request to POST /solve.                                             *)
(***************************************************************************)
InitSolveRoutes ==
    /\ \E req \in Requests :
         /\ vehicles = req.vehicles
         /\ jobs = req.jobs
         /\ matrix = req.matrix
    /\ solver \in SolverTypes
    /\ ORTOOLS_AVAILABLE \in BOOLEAN
    /\ status = 0
    /\ pc = "request"
    /\ pending = <<>>
    /\ assignment_count = 0
    /\ total_duration = 0
    /\ routes = EmptyDict
    /\ feasible = TRUE
    /\ min_total = Inf
    /\ best_routes = EmptyDict
    /\ result = NoResult
    /\ DurationIdle
    /\ ReorderIdle

\* lines 354-402: the handler, from the parsed request to the response
SolveRoutes ==
    /\ pc = "request"
    /\ \E found \in BOOLEAN :
        \E out \in {solve_routes([vehicles |-> vehicles, jobs |-> jobs, matrix |-> matrix],
                                 solver, ORTOOLS_AVAILABLE, found)} :
          /\ status' = out.status
          /\ result' = out.body
    /\ pc' = "responded"
    /\ UNCHANGED <<vehicles, jobs, matrix, solver_vars, solver, ORTOOLS_AVAILABLE,
                   duration_vars, reorder_vars>>

NextSolveRoutes == SolveRoutes

SpecSolveRoutes == InitSolveRoutes /\ [][NextSolveRoutes]_vars

(***************************************************************************)
(* One call of compute_route_duration.                                     *)
(***************************************************************************)
InitRouteDuration ==
    /\ \E m \in Matrices, c \in DurationCalls :
         /\ Len(c.services) <= Len(c.job_locs)
         /\ matrix = m
         /\ call = c
    /\ duration = 0
    /\ vehicles = <<>>
    /\ jobs = <<>>
    /\ pc = "duration_call"
    /\ SolverIdle
    /\ HttpIdle
    /\ ReorderIdle

\* lines 30-46
ComputeRouteDuration ==
    /\ pc = "duration_call"
    /\ duration' = compute_route_duration(call.start, call.job_locs, matrix, call.services)
    /\ pc' = "duration_returned"
    /\ UNCHANGED <<vehicles, jobs, matrix, result, solver_vars, http_vars, call,
                   reorder_vars>>

NextRouteDuration == ComputeRouteDuration

SpecRouteDuration == InitRouteDuration /\ [][NextRouteDuration]_vars

(***************************************************************************)
(* solve_routes called with input_data whose vehicles and jobs carry the   *)
(* attributes the handler and the solvers read (start_index,               *)
(* location_index), the names testcase.py sends.                           *)
(***************************************************************************)
CallVehicleLists ==
    { [i \in 1..Len(f) |-> Vehicle(VehicleIds[i], f[i][1], f[i][2])] :
        f \in UNION { [1..n -> Locations \X {Inf, Fin(1)}] : n \in 0..Len(VehicleIds) } }

CallJobLists ==
    { [i \in 1..Len(f) |-> Job(JobIds[i], f[i][1], f[i][2], f[i][3])] :
        f \in UNION { [1..n -> Locations \X Deliveries \X {0}] : n \in 0..1 } }

CallInputs ==
    { [vehicles |-> vs, jobs |-> js, matrix |-> m] :
        vs \in CallVehicleLists, js \in CallJobLists, m \in RequestMatrices }
    \cup {SampleData}

InitSolveRoutesCall ==
    /\ \E inp \in CallInputs :
         /\ vehicles = inp.vehicles
         /\ jobs = inp.jobs
         /\ matrix = inp.matrix
    /\ solver \in SolverTypes
    /\ ORTOOLS_AVAILABLE \in BOOLEAN
    /\ status = 0
    /\ pc = "request"
    /\ SolverIdle
    /\ DurationIdle
    /\ ReorderIdle

SpecSolveRoutesCall == InitSolveRoutesCall /\ [][NextSolveRoutes]_vars

(***************************************************************************)
(* Two calls of brute_force_solve: one with the lists as given, one with   *)
(* the same vehicles and jobs in another order.                            *)
(***************************************************************************)
ZeroDiagonalMatrices == { m \in Matrices : m[1][1] = 0 /\ m[2][2] = 0 }

ReorderInputs ==
    { [vehicles |-> vs, jobs |-> js, matrix |-> m] :
        vs \in VehicleLists, js \in JobLists, m \in ZeroDiagonalMatrices }
    \cup {SpecScenario, SampleData}

Reorderings(seq) ==
    LET all == permutations(seq) IN {all[k] : k \in 1..Len(all)}

InitReorder ==
    /\ \E inp \in ReorderInputs :
         /\ vehicles = inp.vehicles
         /\ jobs = inp.jobs
         /\ matrix = inp.matrix
    /\ pc = "reorder_call"
    /\ SolverIdle
    /\ HttpIdle
    /\ DurationIdle
    /\ ReorderIdle

\* lines 58-145, called with the lists as given
SolveGiven ==
    /\ pc = "reorder_call"
    /\ result' = brute_force_solve(vehicles, jobs, matrix)
    /\ pc' = "given_returned"
    /\ UNCHANGED <<vehicles, jobs, matrix, solver_vars, http_vars, duration_vars,
                   reorder_vars>>

\* lines 58-145, called with the vehicle list and the job list reordered
SolveReordered ==
    /\ pc = "given_returned"
    /\ \E vs \in Reorderings(vehicles), js \in Reorderings(jobs) :
         reordered' = [vehicles |-> vs, jobs |-> js,
                       result |-> brute_force_solve(vs, js, matrix)]
    /\ pc' = "reordered_returned"
    /\ UNCHANGED <<vehicles, jobs, matrix, result, solver_vars, http_vars,
                   duration_vars>>

NextReorder == SolveGiven \/ SolveReordered

SpecReorder == InitReorder /\ [][NextReorder]_vars

\* the step-wise call returns what brute_force_solve returns as a function
StepwiseAgreesWithCall ==
    pc = "returned" => result = brute_force_solve(vehicles, jobs, matrix)

(***************************************************************************)
(* Reference definitions for the properties: assignments as functions from *)
(* job positions to vehicle positions, visiting orders as injective        *)
(* sequences, the duration of a route as a sum over its legs.              *)
(***************************************************************************)
RECURSIVE SumOver(_, _)
SumOver(S, f) ==
    IF S = {} THEN 0
    ELSE LET x == CHOOSE y \in S : TRUE IN f[x] + SumOver(S \ {x}, f)

Min(S) == CHOOSE x \in S : \A y \in S : x <= y

\* travel(start -> first) + service(first) + sum of travel + service per later job
RefRouteDuration(start, locs, servs, m) ==
    SumOver(1..Len(locs),
            [k \in 1..Len(locs) |->
                m[(IF k = 1 THEN start ELSE locs[k - 1]) + 1][locs[k] + 1] + servs[k]])

JobIdx == 1..Len(jobs)
VehIdx == 1..Len(vehicles)
VehicleIdSet == {vehicles[v].id : v \in VehIdx}
JobIdSet == {jobs[i].id : i \in JobIdx}

AssignmentFns == [JobIdx -> VehIdx]
JobsOn(f, v) == {i \in JobIdx : f[i] = v}
Demand(S) == SumOver(S, [i \in S |-> jobs[i].delivery])
FitsCapacity(f) ==
    \A v \in VehIdx : IsInf(vehicles[v].capacity)
                      \/ Demand(JobsOn(f, v)) <= vehicles[v].capacity[1]
FeasibleFns == {f \in AssignmentFns : FitsCapacity(f)}

Orders(S) == {o \in [1..Cardinality(S) -> S] :
                \A a, b \in 1..Cardinality(S) : a # b => o[a] # o[b]}
OrderDuration(v, o) ==
    RefRouteDuration(vehicles[v].start_index,
                     [k \in 1..Len(o) |-> jobs[o[k]].location_index],
                     [k \in 1..Len(o) |-> jobs[o[k]].service], matrix)
OrderIds(o) == [k \in 1..Len(o) |-> jobs[o[k]].id]

\* the totals of all plans of assignment f: one visiting order per vehicle
RECURSIVE PlanTotalsUpTo(_, _)
PlanTotalsUpTo(f, v) ==
    IF v = 0 THEN {0}
    ELSE {c + OrderDuration(v, o) : c \in PlanTotalsUpTo(f, v - 1),
                                    o \in Orders(JobsOn(f, v))}
PlanTotals(f) == PlanTotalsUpTo(f, Len(vehicles))
AllFeasibleTotals == UNION {PlanTotals(f) : f \in FeasibleFns}

LexLess(a, b) ==
    \E i \in 1..Len(a) : a[i] < b[i] /\ \A k \in 1..(i - 1) : a[k] = b[k]

RouteJobSet(r) == {r.jobs[p] : p \in 1..Len(r.jobs)}
RouteDeliveries(r) ==
    SumOver(1..Len(r.jobs),
            [p \in 1..Len(r.jobs) |->
                jobs[CHOOSE i \in JobIdx : jobs[i].id = r.jobs[p]].delivery])
Returned == pc = "returned"
Solvable == jobs # <<>> /\ FeasibleFns # {}

(***************************************************************************)
(* C1: for an input with at least one job and some capacity-feasible       *)
(* assignment, the returned total_delivery_duration is the minimum, over   *)
(* all feasible assignments and all visiting orders of each vehicle's      *)
(* jobs, of the sum of the route durations; the scenario of the            *)
(* specification yields 1800 with j1 then j2 on one vehicle and the other  *)
(* vehicle's route empty.                                                  *)
(***************************************************************************)
IsSpecScenario ==
    vehicles = SpecScenario.vehicles /\ jobs = SpecScenario.jobs
    /\ matrix = SpecScenario.matrix

C1_OptimalTotal ==
    (Returned /\ Solvable) =>
        /\ result.total_delivery_duration = Min(AllFeasibleTotals)
        /\ IsSpecScenario =>
             /\ result.total_delivery_duration = 1800
             /\ \E a, b \in DOMAIN result.routes :
                  /\ a # b
                  /\ result.routes[a].jobs = <<"j1", "j2">>
                  /\ result.routes[b].jobs = <<>>

C1_Witness ==
    /\ Returned
    /\ IsSpecScenario
    /\ result.total_delivery_duration = 1800
    /\ 2400 \in AllFeasibleTotals

(***************************************************************************)
(* C2: when no assignment of all jobs respects every capacity, the         *)
(* returned value is marked infeasible: it differs from the value returned *)
(* for a feasible problem, and is not the total 0, all-empty-routes value  *)
(* of the zero-job case.                                                   *)
(***************************************************************************)
ZeroJobValue == OutputData(0, EmptyRoutes(vehicles))

C2_InfeasibleIsMarked ==
    (Returned /\ jobs # <<>> /\ FeasibleFns = {}) => result # ZeroJobValue

(***************************************************************************)
(* C3: a request built from the declared schema that passes the            *)
(* validation the handler intends (some vehicle, a non-empty square matrix *)
(* with a row for every start and job location) and selects brute_force is *)
(* answered with status 200 and the result of brute_force_solve on its     *)
(* vehicles, jobs and matrix.                                              *)
(***************************************************************************)
RequestLocations ==
    {vehicles[i].start : i \in 1..Len(vehicles)} \cup {jobs[i].loc : i \in 1..Len(jobs)}

ValidRequest ==
    /\ vehicles # <<>>
    /\ matrix # <<>>
    /\ \A i \in 1..Len(matrix) : Len(matrix[i]) = Len(matrix)
    /\ \A l \in RequestLocations : l < Len(matrix)

\* the request's vehicles and jobs under the attribute names the solver reads
AsSolverVehicles == [i \in 1..Len(vehicles) |->
                        Vehicle(vehicles[i].id, vehicles[i].start, vehicles[i].capacity)]
AsSolverJobs == [i \in 1..Len(jobs) |->
                    Job(jobs[i].id, jobs[i].loc, jobs[i].delivery, jobs[i].service)]

C3_ValidRequestAnswered200 ==
    (pc = "responded" /\ ValidRequest /\ solver = "brute_force") =>
        /\ status = 200
        /\ result = brute_force_solve(AsSolverVehicles, AsSolverJobs, matrix)

(***************************************************************************)
(* C4: for a solvable input the routes map has exactly one entry per       *)
(* vehicle and every input job id appears exactly once across all routes;  *)
(* no other id appears.                                                    *)
(***************************************************************************)
Occurrences(id) ==
    {<<v, p>> \in VehicleIdSet \X (1..Len(jobs)) :
        /\ p <= Len(result.routes[v].jobs)
        /\ result.routes[v].jobs[p] = id}

C4_EveryJobOnce ==
    (Returned /\ Solvable) =>
        /\ DOMAIN result.routes = VehicleIdSet
        /\ \A v \in VehicleIdSet : Len(result.routes[v].jobs) <= Len(jobs)
        /\ \A v \in VehicleIdSet : RouteJobSet(result.routes[v]) \subseteq JobIdSet
        /\ \A id \in JobIdSet : Cardinality(Occurrences(id)) = 1

C4_Witness ==
    /\ Returned
    /\ Solvable
    /\ Cardinality({v \in DOMAIN result.routes : result.routes[v].jobs # <<>>}) >= 2

(***************************************************************************)
(* C5: in every returned Solution each limited vehicle's route carries at  *)
(* most the vehicle's capacity; the same holds of the stored best routes   *)
(* at every moment, and the routes of an assignment abandoned as           *)
(* infeasible (also one abandoned at a later vehicle) are never the stored *)
(* best routes.                                                            *)
(***************************************************************************)
WithinCapacity(rs) ==
    \A v \in VehIdx :
        (vehicles[v].id \in DOMAIN rs /\ ~IsInf(vehicles[v].capacity)) =>
            RouteDeliveries(rs[vehicles[v].id]) <= vehicles[v].capacity[1]

C5_CapacityRespected ==
    /\ Returned => (DOMAIN result.routes = VehicleIdSet /\ WithinCapacity(result.routes))
    /\ pc = "loop" => (DOMAIN best_routes = VehicleIdSet /\ WithinCapacity(best_routes))
    /\ (pc = "loop" /\ ~feasible) => best_routes # routes

C5_Witness ==
    /\ pc = "loop"
    /\ ~feasible
    /\ total_duration > 0
    /\ \E v \in DOMAIN routes : routes[v].jobs # <<>>

(***************************************************************************)
(* C6: on every return path the total is the sum of the routes' durations, *)
(* each route's duration is compute_route_duration of its job order from   *)
(* the vehicle's start, and the total is not negative; the total stored as *)
(* best is never the partial total of an abandoned assignment.             *)
(***************************************************************************)
RouteRecomputed(v, r) ==
    LET js == [p \in 1..Len(r.jobs) |->
                  jobs[CHOOSE i \in JobIdx : jobs[i].id = r.jobs[p]]]
    IN compute_route_duration(vehicles[v].start_index,
                              [p \in 1..Len(js) |-> js[p].location_index], matrix,
                              [p \in 1..Len(js) |-> js[p].service])

TotalsAgree(total, rs) ==
    /\ DOMAIN rs = VehicleIdSet
    /\ \A v \in VehIdx : RouteJobSet(rs[vehicles[v].id]) \subseteq JobIdSet
    /\ \A v \in VehIdx :
          rs[vehicles[v].id].delivery_duration = RouteRecomputed(v, rs[vehicles[v].id])
    /\ total = SumOver(VehIdx, [v \in VehIdx |-> rs[vehicles[v].id].delivery_duration])
    /\ total >= 0

C6_TotalIsSumOfRoutes ==
    /\ Returned => TotalsAgree(result.total_delivery_duration, result.routes)
    /\ (pc = "loop" /\ ~IsInf(min_total)) => TotalsAgree(min_total[1], best_routes)

C6_Witness ==
    /\ Returned
    /\ ~feasible
    /\ result.total_delivery_duration > 0
    /\ Cardinality({v \in DOMAIN result.routes :
                      result.routes[v].delivery_duration > 0}) >= 2

(***************************************************************************)
(* C7: with an empty job list the solver returns total 0 and an empty      *)
(* route of duration 0 for every vehicle, before drawing any assignment,   *)
(* and the value is marked feasible: it differs from the value returned    *)
(* for an infeasible problem with the same vehicles.                       *)
(***************************************************************************)
InfeasibleValue == OutputData(0, EmptyRoutes(vehicles))

C7_ZeroJobsFeasible ==
    (Returned /\ jobs = <<>>) =>
        /\ result.total_delivery_duration = 0
        /\ DOMAIN result.routes = VehicleIdSet
        /\ \A v \in VehicleIdSet : result.routes[v] = Route(<<>>, 0)
        /\ assignment_count = 0
        /\ result # InfeasibleValue

(***************************************************************************)
(* C8: each returned route is, among the visiting orders of its job set    *)
(* with the minimum duration, the first in lexicographic order of the      *)
(* jobs' positions in the input job list.                                  *)
(***************************************************************************)
CanonicalFirst(v, S) ==
    LET best == {o \in Orders(S) :
                    \A o2 \in Orders(S) : OrderDuration(v, o) <= OrderDuration(v, o2)}
    IN CHOOSE o \in best : \A o2 \in best \ {o} : LexLess(o, o2)

C8_CanonicalTieBreak ==
    (Returned /\ Solvable) =>
        \A v \in VehIdx :
            LET r == result.routes[vehicles[v].id]
                S == {i \in JobIdx : jobs[i].id \in RouteJobSet(r)}
            IN r.jobs = OrderIds(CanonicalFirst(v, S))

(***************************************************************************)
(* C9: the returned routes are those of the first assignment, in the       *)
(* order of the vehicle index vectors read in input job order, among the   *)
(* feasible assignments of minimum total; the stored best routes are       *)
(* replaced only by an assignment of strictly smaller total.               *)
(***************************************************************************)
AssignmentTotal(f) == Min(PlanTotals(f))
OptimalFns ==
    LET totals == [f \in FeasibleFns |-> AssignmentTotal(f)]
        best == Min({totals[f] : f \in FeasibleFns})
    IN {f \in FeasibleFns : totals[f] = best}
FirstOptimal ==
    LET optimal == OptimalFns
    IN CHOOSE f \in optimal : \A g \in optimal \ {f} : LexLess(f, g)

C9_FirstOptimumReturned ==
    (Returned /\ Solvable) =>
        /\ DOMAIN result.routes = VehicleIdSet
        /\ \E first \in {FirstOptimal} :
              \A i \in JobIdx :
                  jobs[i].id \in RouteJobSet(result.routes[vehicles[first[i]].id])

C9_ReplacedOnlyByBetter ==
    (pc = "loop" /\ pc' = "loop" /\ ~IsInf(min_total) /\ best_routes' # best_routes) =>
        (~IsInf(min_total') /\ min_total'[1] < min_total[1])

C9_FirstMinimumWins == [](C9_FirstOptimumReturned) /\ [][C9_ReplacedOnlyByBetter]_vars

C9_Witness ==
    /\ Returned
    /\ Solvable
    /\ Cardinality(OptimalFns) >= 2
    /\ result.total_delivery_duration > 0

(***************************************************************************)
(* C10: with a services list as long as job_locs, compute_route_duration   *)
(* returns travel(start -> first) + service(first) plus travel + service   *)
(* for each later job: each service once, no leg back to the start, and 0  *)
(* for no jobs.                                                            *)
(***************************************************************************)
C10_RouteDurationFormula ==
    (pc = "duration_returned" /\ Len(call.services) = Len(call.job_locs)) =>
        /\ duration = RefRouteDuration(call.start, call.job_locs, call.services, matrix)
        /\ call.job_locs = <<>> => duration = 0

C10_Witness ==
    /\ pc = "duration_returned"
    /\ Len(call.job_locs) = 3
    /\ call.services = <<1, 0, 1>>
    /\ call.start = 1
    /\ matrix[2][call.job_locs[1] + 1] = 1
    /\ matrix[call.job_locs[3] + 1][2] = 1
    /\ duration = 3

(***************************************************************************)
(* C11: permuting the order of the job list or of the vehicle list, with   *)
(* identifiers and all other fields kept, leaves the                       *)
(* total_delivery_duration returned by brute_force_solve unchanged.        *)
(***************************************************************************)
C11_TotalIgnoresOrder ==
    pc = "reordered_returned" =>
        reordered.result.total_delivery_duration = result.total_delivery_duration

C11_Witness ==
    /\ pc = "reordered_returned"
    /\ Len(jobs) >= 2
    /\ Len(vehicles) = 2
    /\ vehicles[1].start_index # vehicles[2].start_index
    /\ vehicles[1].capacity # vehicles[2].capacity
    /\ jobs[1].location_index # jobs[2].location_index
    /\ reordered.vehicles # vehicles
    /\ reordered.jobs # jobs
    /\ result.total_delivery_duration > 0
    /\ reordered.result.routes # result.routes
    /\ reordered.result.total_delivery_duration = result.total_delivery_duration

(***************************************************************************)
(* C12: POST /solve answers 400 and runs no solver whenever the request's  *)
(* vehicle list is empty, or its matrix is empty, or the matrix has no row *)
(* for the largest vehicle start or job location index, or some row's      *)
(* length differs from the number of rows.                                 *)
(***************************************************************************)
NoVehicles == vehicles = <<>>
EmptyMatrix == matrix = <<>>
MatrixTooSmall == \E l \in RequestLocations : l >= Len(matrix)
MatrixNotSquare == \E i \in 1..Len(matrix) : Len(matrix[i]) # Len(matrix)

C12_DefectAnswered400 ==
    (pc = "responded" /\ (NoVehicles \/ EmptyMatrix \/ MatrixTooSmall \/ MatrixNotSquare)) =>
        /\ status = 400
        /\ result = NoResult

(***************************************************************************)
(* C13: when solver or_tools is selected and the OR-tools library is not   *)
(* available, the response has status 400: the rejection raised inside the *)
(* handler reaches the client and is not turned into a 500 by the          *)
(* handler's own except clauses.                                           *)
(***************************************************************************)
CallLocations ==
    {vehicles[i].start_index : i \in 1..Len(vehicles)}
    \cup {jobs[i].location_index : i \in 1..Len(jobs)}

PassesValidation ==
    /\ vehicles # <<>>
    /\ matrix # <<>>
    /\ \A l \in CallLocations : l < Len(matrix)
    /\ \A i \in 1..Len(matrix) : Len(matrix[i]) = Len(matrix)

C13_UnavailableAnswered400 ==
    (pc = "responded" /\ solver = "or_tools" /\ ~ORTOOLS_AVAILABLE /\ PassesValidation) =>
        status = 400

====
